---- MODULE Spec2Model ----
(***************************************************************************)
(* Model of the NPB statistics dashboard's data layer (src/logic.py) and   *)
(* of the session script that drives it (src/app.py).                      *)
(*                                                                         *)
(* Values.  A pandas cell / Python value is a tagged record:               *)
(*   [v |-> n]       a number; floats are kept in thousandths, so the      *)
(*                   WinRate 0.580 is [v |-> 580] and the bound 1 is 1000  *)
(*   [s |-> "..."]   a string                                              *)
(*   [nan |-> TRUE]  NaN, which is what read_csv gives for an empty field  *)
(*   [none |-> TRUE] Python's None                                         *)
(* Strings stand for the program's (Japanese) literals in ASCII.           *)
(* A DataFrame is [cols |-> sequence of column names,                      *)
(*                 rows |-> sequence of rows, each a function col -> cell]. *)
(***************************************************************************)
EXTENDS Integers, Sequences, FiniteSets, TLC

VARIABLES
    srcFile,   \* data/npb_stats.csv: [cols, rows] as read_csv parses it
    dbFile,    \* data/records.csv: [exists, lines], a line a sequence of fields
    src_df,    \* app.py's src_df: the table the session works on
    view,      \* app.py's view / view_for_save
    meta,      \* app.py's meta, the current selection
    snap,      \* the arguments and surroundings of the latest snapshot_to_db call
    ret,       \* what the latest call returned or raised
    clock,     \* datetime.now(), in seconds
    pc,        \* per session: the position inside snapshot_to_db
    loc        \* per session: snapshot_to_db's locals

vars == <<srcFile, dbFile, src_df, view, meta, snap, ret, clock, pc, loc>>

---------------------------------------------------------------------------
(* Values *)

F(n) == [v |-> n]
S(x) == [s |-> x]
NaN == [nan |-> TRUE]
None == [none |-> TRUE]

IsNum(c) == DOMAIN c = {"v"}
IsStr(c) == DOMAIN c = {"s"}
IsNaN(c) == c = NaN

\* Python truthiness of an Optional[str] argument: None and "" are falsy.
Truthy(x) == x # None /\ x # S("")

\* logic.py:11
NEEDED_COLS == <<"Year", "League", "Team", "Games", "Wins", "Losses", "Draws", "WinRate">>

\* app.py:40, logic.py:56 ("zentai" stands for the literal meaning "all leagues")
ALL_LEAGUES == S("zentai")
\* app.py:42, logic.py:58 (the literal meaning "(all teams)")
ALL_TEAMS == S("(zen-team)")

Range(f) == {f[i] : i \in DOMAIN f}

\* The strings of the model in Python's str order (code point order).
StrOrder == <<"", "(zen-team)", "Central", "Giants", "Hawks", "Pacific", "Tigers", "zentai">>
StrRank(x) == CHOOSE i \in DOMAIN StrOrder : StrOrder[i] = x
\* Python's < on two str cells
StrLess(a, b) == StrRank(a.s) < StrRank(b.s)

---------------------------------------------------------------------------
(* pandas helpers *)

Take(rows, idx) == [k \in 1..Len(idx) |-> rows[idx[k]]]

AllIdx(df) == [k \in 1..Len(df.rows) |-> k]

\* All orderings of the positions in idx.
Orderings(idx) ==
    {p \in [1..Len(idx) -> Range(idx)] : \A i, j \in 1..Len(idx) : i # j => p[i] # p[j]}

\* a may come directly before b in a sort of the given direction; NaN sorts
\* last (na_position="last") in both directions.
MayPrecede(a, b, ascending) ==
    IF IsNaN(a) THEN IsNaN(b)
    ELSE IsNaN(b) \/ (IF ascending THEN a.v <= b.v ELSE a.v >= b.v)

\* Mutant of sort_values: the rows are left in any order.
sort_values_Unsorted(rows, idx, col, ascending) == Orderings(idx)

\* Series/DataFrame.sort_values(col, ascending=...) with the default
\* kind="quicksort": the result is ordered by the key, and the order of rows
\* with equal keys is whatever the build's quicksort leaves (pandas documents
\* only mergesort/stable as stable), so every key-ordered arrangement is a
\* possible outcome.  NaN keys are appended in their original order.
sort_values(rows, idx, col, ascending) ==
    {p \in Orderings(idx) :
        /\ \A k \in 1..(Len(p) - 1) : MayPrecede(rows[p[k]][col], rows[p[k + 1]][col], ascending)
        /\ \A i, j \in 1..Len(p) :
              (i < j /\ IsNaN(rows[p[i]][col]) /\ IsNaN(rows[p[j]][col])) => p[i] < p[j]}

\* Series.unique(): the distinct values in order of first appearance.
RECURSIVE unique(_)
unique(s) ==
    IF s = <<>> THEN <<>>
    ELSE LET u == unique(SubSeq(s, 1, Len(s) - 1))
         IN IF s[Len(s)] \in Range(u) THEN u ELSE Append(u, s[Len(s)])

\* Python's sorted() on a list of distinct str values: insertion by rank.
RECURSIVE sorted(_)
sorted(s) ==
    IF s = <<>> THEN <<>>
    ELSE LET m == CHOOSE x \in Range(s) : \A y \in Range(s) : ~StrLess(y, x)
             rest == SelectSeq(s, LAMBDA y : y # m)
         IN <<m>> \o sorted(rest)

Column(df, idx, col) == [k \in 1..Len(idx) |-> df.rows[idx[k]][col]]

---------------------------------------------------------------------------
(* Query Layer and Trend Extractor, logic.py:48-64 *)

\* Mutant of teams: the league restricts the whole table, not the year's rows.
teams_LeagueOverWholeTable(df, year, league) ==
    LET q1 == IF year # None
              THEN SelectSeq(AllIdx(df), LAMBDA i : df.rows[i]["Year"] = year)
              ELSE AllIdx(df)
        q2 == IF Truthy(league)
              THEN SelectSeq(AllIdx(df), LAMBDA i : df.rows[i]["League"] = league)
              ELSE q1
    IN sorted(unique(Column(df, q2, "Team")))

\* logic.py:48-52
teams(df, year, league) ==
    LET q1 == IF year # None
              THEN SelectSeq(AllIdx(df), LAMBDA i : df.rows[i]["Year"] = year)
              ELSE AllIdx(df)
        q2 == IF Truthy(league)
              THEN SelectSeq(q1, LAMBDA i : df.rows[i]["League"] = league)
              ELSE q1
    IN sorted(unique(Column(df, q2, "Team")))

\* Mutant of FilterIdx: the team selection is not applied.
FilterIdx_IgnoresTeam(df, year, league, team) ==
    LET q1 == SelectSeq(AllIdx(df), LAMBDA i : df.rows[i]["Year"] = year)
    IN IF Truthy(league) /\ league # ALL_LEAGUES
       THEN SelectSeq(q1, LAMBDA i : df.rows[i]["League"] = league)
       ELSE q1

\* logic.py:55-59: the positions of the rows filter_table keeps (df[mask] keeps
\* the rows that satisfy the mask, in their order)
FilterIdx(df, year, league, team) ==
    LET q1 == SelectSeq(AllIdx(df), LAMBDA i : df.rows[i]["Year"] = year)
        q2 == IF Truthy(league) /\ league # ALL_LEAGUES
              THEN SelectSeq(q1, LAMBDA i : df.rows[i]["League"] = league)
              ELSE q1
        q3 == IF Truthy(team) /\ team # ALL_TEAMS
              THEN SelectSeq(q2, LAMBDA i : df.rows[i]["Team"] = team)
              ELSE q2
    IN q3

\* logic.py:54-60: the possible results, each as the order (positions in df) in
\* which the kept rows come out; reset_index(drop=True) then renumbers them.
filter_table(df, year, league, team) ==
    sort_values(df.rows, FilterIdx(df, year, league, team), "WinRate", FALSE)

\* Mutant of team_trend: the years are sorted in descending order.
team_trend_Descending(df, team) ==
    sort_values(df.rows, SelectSeq(AllIdx(df), LAMBDA i : df.rows[i]["Team"] = team),
                "Year", FALSE)

\* logic.py:62-64
team_trend(df, team) ==
    sort_values(df.rows, SelectSeq(AllIdx(df), LAMBDA i : df.rows[i]["Team"] = team),
                "Year", TRUE)

\* The DataFrame a query returns: df's columns, the rows in the order perm.
Frame(df, perm) == [cols |-> df.cols, rows |-> Take(df.rows, perm)]

---------------------------------------------------------------------------
(* Schema Validator, Source Loader and Upload Importer, logic.py:16-40 *)

Return(x) == [raised |-> FALSE, val |-> x, exc |-> None]
Raise(e) == [raised |-> TRUE, val |-> None, exc |-> e]

\* Mutant of MissingCols: only the first lacking column is reported.
MissingCols_FirstOnly(df) ==
    LET m == SelectSeq(NEEDED_COLS, LAMBDA c : c \notin Range(df.cols))
    IN IF m = <<>> THEN m ELSE <<m[1]>>

\* logic.py:18 and :37: the needed columns the frame lacks, in NEEDED_COLS order
MissingCols(df) == SelectSeq(NEEDED_COLS, LAMBDA c : c \notin Range(df.cols))

\* logic.py:20: the ValueError of _read_csv_strict; its text shows the missing
\* columns and NEEDED_COLS
SourceSchemaError(missing) ==
    [type |-> "ValueError", text |-> "csv-columns-missing", missing |-> missing,
     expected |-> NEEDED_COLS]

\* logic.py:39: the ValueError of import_uploaded_csv; its text shows the
\* missing columns only
UploadSchemaError(missing) ==
    [type |-> "ValueError", text |-> "upload-columns-missing", missing |-> missing]

\* logic.py:16-21; pd.read_csv raises FileNotFoundError for a missing file
read_csv_strict(file) ==
    IF ~file.exists THEN Raise([type |-> "FileNotFoundError"])
    ELSE LET df == [cols |-> file.cols, rows |-> file.rows]
             missing == MissingCols(df)
         IN IF missing # <<>> THEN Raise(SourceSchemaError(missing)) ELSE Return(df)

\* Series.astype(int) succeeds when every cell of the column is a number; a NaN
\* (empty field) or a text cell makes it raise.
AsIntFails(df, col) == \E i \in DOMAIN df.rows : ~IsNum(df.rows[i][col])

\* Series.astype(float) keeps NaN and raises on a text cell.
AsFloatFails(df, col) == \E i \in DOMAIN df.rows : IsStr(df.rows[i][col])

\* Mutant of clip: values above the upper bound are left alone.
clip_LowerOnly(c, lo, hi) == IF IsNum(c) /\ c.v < lo THEN F(lo) ELSE c

\* Series.clip(lo, hi) on one cell: NaN stays NaN
clip(c, lo, hi) ==
    IF ~IsNum(c) THEN c
    ELSE IF c.v < lo THEN F(lo)
    ELSE IF c.v > hi THEN F(hi)
    ELSE c

\* logic.py:23-31 (0 and 1 are 0 and 1000 thousandths)
load_source(file) ==
    LET r == read_csv_strict(file)
    IN IF r.raised THEN r
       ELSE IF AsIntFails(r.val, "Year") THEN Raise([type |-> "ValueError", text |-> "astype-int"])
       ELSE IF \E c \in {"Games", "Wins", "Losses", "Draws"} : AsIntFails(r.val, c)
            THEN Raise([type |-> "ValueError", text |-> "astype-int"])
       ELSE IF AsFloatFails(r.val, "WinRate")
            THEN Raise([type |-> "ValueError", text |-> "astype-float"])
       ELSE Return([cols |-> r.val.cols,
                    rows |-> [i \in DOMAIN r.val.rows |->
                                 [r.val.rows[i] EXCEPT !["WinRate"] = clip(@, 0, 1000)]]])

\* logic.py:33-40; buf is the upload as pd.read_csv parses it
import_uploaded_csv(buf) ==
    LET df == [cols |-> buf.cols, rows |-> buf.rows]
        missing == MissingCols(df)
    IN IF missing # <<>> THEN Raise(UploadSchemaError(missing)) ELSE Return(df)

\* Python's sorted(..., reverse=True) on a list of distinct int cells
RECURSIVE sorted_desc(_)
sorted_desc(s) ==
    IF s = <<>> THEN <<>>
    ELSE LET m == CHOOSE x \in Range(s) : \A y \in Range(s) : y.v <= x.v
             rest == SelectSeq(s, LAMBDA y : y # m)
         IN <<m>> \o sorted_desc(rest)

\* logic.py:42-43
years(df) == sorted_desc(unique(Column(df, AllIdx(df), "Year")))

\* logic.py:45-46
leagues(df) == sorted(unique(Column(df, AllIdx(df), "League")))

---------------------------------------------------------------------------
(* Snapshot Recorder and History Reader, logic.py:66-81.                    *)
(* The history file is a sequence of lines, a line a sequence of fields; a  *)
(* field is the cell it was written from, except that to_csv writes NaN as  *)
(* the empty field and read_csv reads the empty field as NaN.               *)

\* logic.py:69: datetime.now().strftime(...) at second t
Stamp(t) == [ts |-> t]
\* logic.py:72: str(meta)
Repr(m) == [repr |-> m]

ToField(c) == IF IsNaN(c) THEN S("") ELSE c
FromField(f) == IF f = S("") THEN NaN ELSE f

\* logic.py:70-72: out = df_view.copy() with _saved_at and _meta inserted in front
WithStampAndMeta(df_view, stamp, m) ==
    [cols |-> <<"_saved_at", "_meta">> \o df_view.cols,
     rows |-> [i \in DOMAIN df_view.rows |->
                 [c \in {"_saved_at", "_meta"} \cup Range(df_view.cols) |->
                     IF c = "_saved_at" THEN stamp
                     ELSE IF c = "_meta" THEN Repr(m)
                     ELSE df_view.rows[i][c]]]]

\* to_csv(index=False): the header line and the data lines of a frame
HeaderLine(df) == [j \in DOMAIN df.cols |-> S(df.cols[j])]
DataLines(df) ==
    [i \in DOMAIN df.rows |-> [j \in DOMAIN df.cols |-> ToField(df.rows[i][df.cols[j]])]]

\* Mutant of snapshot_to_db: the header is written on every call.
snapshot_to_db_HeaderAlways(db, df_view, m, now) ==
    LET out == WithStampAndMeta(df_view, Stamp(now), m)
    IN [exists |-> TRUE,
        lines |-> (IF db.exists THEN db.lines ELSE <<>>) \o <<HeaderLine(out)>> \o DataLines(out)]

\* Mutant of snapshot_to_db: an existing log is rewritten from scratch.
snapshot_to_db_Overwrites(db, df_view, m, now) ==
    LET out == WithStampAndMeta(df_view, Stamp(now), m)
    IN [exists |-> TRUE, lines |-> <<HeaderLine(out)>> \o DataLines(out)]

\* logic.py:66-76, run without interruption: the log after the call
snapshot_to_db(db, df_view, m, now) ==
    LET out == WithStampAndMeta(df_view, Stamp(now), m)
    IN IF db.exists
       THEN [exists |-> TRUE, lines |-> db.lines \o DataLines(out)]
       ELSE [exists |-> TRUE, lines |-> <<HeaderLine(out)>> \o DataLines(out)]

\* pd.read_csv on the log's lines.  The first line names the columns.  When the
\* first data line has more fields than the header, the surplus leading fields
\* become the index; a line with more fields than that raises ParserError; a
\* shorter line is padded with NaN.  An empty file raises EmptyDataError.
read_csv(lines) ==
    IF lines = <<>> THEN Raise([type |-> "EmptyDataError"])
    ELSE LET header == Head(lines)
             data == Tail(lines)
             leading == IF data # <<>> /\ Len(data[1]) > Len(header)
                        THEN Len(data[1]) - Len(header) ELSE 0
             cell(line, j) == IF leading + j <= Len(line)
                              THEN FromField(line[leading + j]) ELSE NaN
         IN IF \E i \in DOMAIN data : Len(data[i]) > Len(header) + leading
            THEN Raise([type |-> "ParserError"])
            ELSE Return([cols |-> [j \in DOMAIN header |-> header[j].s],
                         rows |-> [i \in DOMAIN data |->
                                     [c \in {header[j].s : j \in DOMAIN header} |->
                                         LET j == CHOOSE k \in DOMAIN header : header[k].s = c
                                         IN cell(data[i], j)]]])

\* logic.py:78-81
load_db(db) == IF ~db.exists THEN Return([cols |-> <<>>, rows |-> <<>>]) ELSE read_csv(db.lines)

---------------------------------------------------------------------------
(* Shared initial values *)

NoFile == [exists |-> FALSE, lines |-> <<>>]
NoSource == [exists |-> FALSE, cols |-> <<>>, rows |-> <<>>]
NoFrame == [cols |-> <<>>, rows |-> <<>>]
Idle == [op |-> "none"]
NoSnap == [taken |-> FALSE, count |-> 0, layouts |-> {}]

---------------------------------------------------------------------------
(* SpecQuery: the pure Query Layer / Trend Extractor functions applied to    *)
(* every table of at most MaxRows Records over a small value domain.  The   *)
(* functions are pure, so a behaviour is one table and one call on it.      *)

MaxRows == 3

Record(y, lt, w) ==
    [Year |-> F(y), League |-> S(lt[1]), Team |-> S(lt[2]), Games |-> F(143),
     Wins |-> F(80), Losses |-> F(60), Draws |-> F(3), WinRate |-> F(w)]

QueryYears == {2022, 2023}
QueryClubs == {<<"Central", "Giants">>, <<"Central", "Tigers">>, <<"Pacific", "Hawks">>}
QueryWinRates == {400, 600}
QueryRecords == {Record(y, lt, w) : y \in QueryYears, lt \in QueryClubs, w \in QueryWinRates}
QueryTables ==
    {[cols |-> NEEDED_COLS, rows |-> rs] :
        rs \in UNION {[1..n -> QueryRecords] : n \in 0..MaxRows}}

\* Arguments the functions are called with: the years (each absent from the
\* tables that hold only the other); None, "", the "all" sentinels and names
\* (each absent from some tables).
YearArgs == {F(2022), F(2023)}
LeagueArgs == {None, S(""), ALL_LEAGUES, S("Central"), S("Pacific")}
TeamArgs == {None, S(""), ALL_TEAMS, S("Giants"), S("Hawks")}

InitQuery ==
    /\ src_df \in QueryTables
    /\ srcFile = NoSource
    /\ dbFile = NoFile
    /\ view = NoFrame
    /\ meta = None
    /\ snap = NoSnap
    /\ ret = Idle
    /\ clock = 0
    /\ pc = <<>>
    /\ loc = <<>>

\* filter_table(src_df, year, league, team), logic.py:54-60
CallFilterTable ==
    /\ ret = Idle
    /\ \E year \in YearArgs, league \in LeagueArgs, team \in TeamArgs :
        \E perm \in filter_table(src_df, year, league, team) :
            /\ ret' = [op |-> "filter_table", year |-> year, league |-> league,
                       team |-> team, perm |-> perm, val |-> Frame(src_df, perm)]
            /\ UNCHANGED <<srcFile, dbFile, src_df, view, meta, snap, clock, pc, loc>>

\* teams(src_df, year, league), logic.py:48-52
CallTeams ==
    /\ ret = Idle
    /\ \E year \in {None} \cup YearArgs, league \in LeagueArgs \ {ALL_LEAGUES} :
        /\ ret' = [op |-> "teams", year |-> year, league |-> league,
                   val |-> teams(src_df, year, league)]
        /\ UNCHANGED <<srcFile, dbFile, src_df, view, meta, snap, clock, pc, loc>>

\* team_trend(src_df, team), logic.py:62-64
CallTeamTrend ==
    /\ ret = Idle
    /\ \E team \in {S("Giants"), S("Hawks"), S("Tigers")} :
        \E perm \in team_trend(src_df, team) :
            /\ ret' = [op |-> "team_trend", team |-> team, perm |-> perm,
                       val |-> Frame(src_df, perm)]
            /\ UNCHANGED <<srcFile, dbFile, src_df, view, meta, snap, clock, pc, loc>>

NextQuery == CallFilterTable \/ CallTeams \/ CallTeamTrend

SpecQuery == InitQuery /\ [][NextQuery]_vars

---------------------------------------------------------------------------
(* Claims about the Query Layer and the Trend Extractor (under SpecQuery) *)

Count(seq, x) == Cardinality({i \in DOMAIN seq : seq[i] = x})

\* float comparison a > b: false whenever a NaN is involved
Greater(a, b) == IsNum(a) /\ IsNum(b) /\ a.v > b.v

\* out holds exactly the rows of rows that satisfy keep (a set of rows), each
\* as often as rows holds it
ExactlyTheRows(out, rows, keep) ==
    \A x \in Range(out) \cup Range(rows) :
        Count(out, x) = IF x \in keep THEN Count(rows, x) ELSE 0

\* An optional argument is provided when it is neither None nor the empty
\* string (both mean "not given" to a caller passing an optional str).
Provided(x) == x # None /\ x # S("")

\* the rows C1 says filterTable(T, y, l, t) returns
C1_Selected(T, y, l, t) ==
    {r \in Range(T.rows) :
        /\ r["Year"] = y
        /\ (Provided(l) /\ l # ALL_LEAGUES) => r["League"] = l
        /\ (Provided(t) /\ t # ALL_TEAMS) => r["Team"] = t}

NeverIncreases(rows, col) ==
    \A k \in 1..(Len(rows) - 1) : ~Greater(rows[k + 1][col], rows[k][col])

NeverDecreases(rows, col) ==
    \A k \in 1..(Len(rows) - 1) : ~Greater(rows[k][col], rows[k + 1][col])

\* C1: filterTable(T, y, l, t) returns exactly the rows of T (same
\* multiplicity, none added or dropped) with Year = y, with League = l when l
\* is provided and is not the "all leagues" sentinel, and with Team = t when t
\* is provided and is not the "all teams" sentinel; WinRate never increases
\* from one row of the result to the next; when nothing matches the result is
\* the empty table (with the input's columns), not an error.
C1_FilterTable ==
    ret.op = "filter_table" =>
        /\ ExactlyTheRows(ret.val.rows, src_df.rows,
                          C1_Selected(src_df, ret.year, ret.league, ret.team))
        /\ NeverIncreases(ret.val.rows, "WinRate")
        /\ (C1_Selected(src_df, ret.year, ret.league, ret.team) = {}) => ret.val.rows = <<>>
        /\ ret.val.cols = src_df.cols

\* C1 witness: a call with a league and a team given that keeps some rows of a
\* table, drops others, and returns more than one row.
C1_Witness ==
    /\ ret.op = "filter_table"
    /\ IsStr(ret.league) /\ Truthy(ret.league) /\ ret.league # ALL_LEAGUES
    /\ IsStr(ret.team) /\ Truthy(ret.team) /\ ret.team # ALL_TEAMS
    /\ Len(ret.val.rows) >= 2
    /\ Len(ret.val.rows) < Len(src_df.rows)
    /\ ret.val.rows[1]["WinRate"] # ret.val.rows[2]["WinRate"]

\* C6 as stated: in the result of filterTable two rows with equal WinRate keep
\* the relative order they had in the input table.
C6_AsStated ==
    ret.op = "filter_table" =>
        \A p, q \in 1..Len(ret.perm) :
            (p < q /\ ret.val.rows[p]["WinRate"] = ret.val.rows[q]["WinRate"])
               => ret.perm[p] < ret.perm[q]

\* C6 amended: rows with equal WinRate come out next to each other (no row
\* with another WinRate between them) and each kept row comes out once, but
\* their relative order is not fixed: it need not be the input order.
C6_TiesAdjacent ==
    ret.op = "filter_table" =>
        /\ \A p, q \in 1..Len(ret.perm) :
              (p < q /\ ret.val.rows[p]["WinRate"] = ret.val.rows[q]["WinRate"])
                 => \A k \in p..q : ret.val.rows[k]["WinRate"] = ret.val.rows[p]["WinRate"]
        /\ \A p, q \in 1..Len(ret.perm) : p # q => ret.perm[p] # ret.perm[q]
        /\ Range(ret.perm) = Range(FilterIdx(src_df, ret.year, ret.league, ret.team))

\* C6 witness: two different rows with equal WinRate come out in the reverse of
\* their input order.
C6_Witness ==
    /\ ret.op = "filter_table"
    /\ \E p, q \in 1..Len(ret.perm) :
          /\ p < q
          /\ ret.val.rows[p]["WinRate"] = ret.val.rows[q]["WinRate"]
          /\ ret.val.rows[p] # ret.val.rows[q]
          /\ ret.perm[p] > ret.perm[q]

IsSubset(a, b) == Range(a) \subseteq Range(b)

StrictlyAscending(s) == \A k \in 1..(Len(s) - 1) : StrLess(s[k], s[k + 1])

\* C8: teams(T, y, l) is a subset of teams(T, y, None), which is a subset of
\* teams(T, None, None); each result holds distinct Team values in ascending
\* order, and teams(T, None, None) is exactly the set of Team values of T.
C8_Teams ==
    ret.op = "teams" =>
        /\ IsSubset(ret.val, teams(src_df, ret.year, None))
        /\ IsSubset(teams(src_df, ret.year, None), teams(src_df, None, None))
        /\ StrictlyAscending(ret.val)
        /\ Range(ret.val) \subseteq {r["Team"] : r \in Range(src_df.rows)}
        /\ (ret.year = None /\ ret.league = None)
              => Range(ret.val) = {r["Team"] : r \in Range(src_df.rows)}

\* C8 witness: a year and a league narrow the teams of a table in two steps.
C8_Witness ==
    /\ ret.op = "teams"
    /\ ret.year # None /\ Truthy(ret.league)
    /\ ret.val # <<>>
    /\ Len(ret.val) < Len(teams(src_df, ret.year, None))
    /\ Len(teams(src_df, ret.year, None)) < Len(teams(src_df, None, None))

\* C9: teamTrend(T, team) returns exactly the rows of T whose Team is team,
\* ordered so Year never decreases; for a team T does not hold the result is
\* the empty table.
C9_TeamTrend ==
    ret.op = "team_trend" =>
        /\ ExactlyTheRows(ret.val.rows, src_df.rows,
                          {r \in Range(src_df.rows) : r["Team"] = ret.team})
        /\ NeverDecreases(ret.val.rows, "Year")
        /\ (\A r \in Range(src_df.rows) : r["Team"] # ret.team) => ret.val.rows = <<>>
        /\ ret.val.cols = src_df.cols

\* C9 witness: the trend of a team whose rows are out of year order in a table
\* that also holds another team.
C9_Witness ==
    /\ ret.op = "team_trend"
    /\ Len(ret.val.rows) >= 2
    /\ Len(ret.val.rows) < Len(src_df.rows)
    /\ ret.perm[1] > ret.perm[2]
    /\ ret.val.rows[1]["Year"] # ret.val.rows[2]["Year"]

---------------------------------------------------------------------------
(* The session: one run of app.py after another, an action per call it makes *)

MaxSnapshots == 2

LayoutNoDraws == <<"Year", "League", "Team", "Games", "Wins", "Losses", "WinRate">>
LayoutNoYearNoWinRate == <<"League", "Team", "Games", "Wins", "Losses", "Draws">>

\* A row of a parsed CSV with the given columns.
RawRow(layout, year, league, team, winrate) ==
    [c \in Range(layout) |->
        CASE c = "Year" -> year
          [] c = "League" -> S(league)
          [] c = "Team" -> S(team)
          [] c = "Games" -> F(143)
          [] c = "Wins" -> F(80)
          [] c = "Losses" -> F(60)
          [] c = "Draws" -> F(3)
          [] c = "WinRate" -> winrate
          [] OTHER -> F(1)]

CsvFile(layout, rows) == [exists |-> TRUE, cols |-> layout, rows |-> rows]

\* The canonical source file a session runs on: two clubs of one season, one
\* of them with a WinRate above 1.
SessionSources ==
    { CsvFile(NEEDED_COLS,
              << RawRow(NEEDED_COLS, F(2023), "Central", "Giants", F(580)),
                 RawRow(NEEDED_COLS, F(2023), "Central", "Tigers", F(1300)) >>) }

LayoutOther ==
    <<"Year", "Team", "League", "Games", "Wins", "Losses", "Draws", "WinRate", "Rank">>

\* The upload buffers a user offers, as parsed: valid ones with the columns in
\* another order and one column more (one with a row, one without rows), and
\* two that lack needed columns.
Uploads ==
    { [cols |-> LayoutOther,
       rows |-> << RawRow(LayoutOther, F(2023), "Pacific", "Hawks", F(400)) >>],
      [cols |-> LayoutOther, rows |-> <<>>],
      [cols |-> LayoutNoDraws,
       rows |-> << RawRow(LayoutNoDraws, F(2023), "Central", "Giants", F(580)) >>],
      [cols |-> LayoutNoYearNoWinRate, rows |-> <<>>] }

Init ==
    /\ srcFile \in SessionSources
    /\ dbFile = NoFile
    /\ src_df = NoFrame
    /\ view = NoFrame
    /\ meta = None
    /\ snap = NoSnap
    /\ ret = Idle
    /\ clock = 0
    /\ pc = <<>>
    /\ loc = <<>>

\* app.py:26: src_df = load_source(); an exception ends the run
LoadSource ==
    LET r == load_source(srcFile)
    IN /\ ret' = [op |-> "load_source", out |-> r]
       /\ src_df' = IF r.raised THEN NoFrame ELSE r.val
       /\ view' = NoFrame
       /\ meta' = None
       /\ UNCHANGED <<srcFile, dbFile, snap, clock, pc, loc>>

\* Mutant of ImportUpload: the upload is also saved as the canonical source.
ImportUpload_SavesUpload ==
    /\ ret.op = "load_source" /\ ~ret.out.raised
    /\ \E buf \in Uploads :
          LET r == import_uploaded_csv(buf)
          IN /\ ret' = [op |-> "import_uploaded_csv", arg |-> buf, out |-> r]
             /\ src_df' = IF r.raised THEN src_df ELSE r.val
             /\ srcFile' = CsvFile(buf.cols, buf.rows)
             /\ view' = IF r.raised THEN view ELSE NoFrame
             /\ meta' = IF r.raised THEN meta ELSE None
             /\ UNCHANGED <<dbFile, snap, clock, pc, loc>>

\* app.py:26-34: right after src_df = load_source() returned, the run does
\* src_df = import_uploaded_csv(up.read()) when a file is offered; an
\* exception is caught and shown, and src_df is then still the loaded source
ImportUpload ==
    /\ ret.op = "load_source" /\ ~ret.out.raised
    /\ \E buf \in Uploads :
          LET r == import_uploaded_csv(buf)
          IN /\ ret' = [op |-> "import_uploaded_csv", arg |-> buf, out |-> r]
             /\ src_df' = IF r.raised THEN src_df ELSE r.val
             /\ view' = IF r.raised THEN view ELSE NoFrame
             /\ meta' = IF r.raised THEN meta ELSE None
             /\ UNCHANGED <<srcFile, dbFile, snap, clock, pc, loc>>

\* app.py:39-43: the sidebar's options; a selectbox without options gives None
YearOptions(df) == IF years(df) = <<>> THEN {None} ELSE Range(years(df))
LeagueOptions(df) == {ALL_LEAGUES} \cup Range(leagues(df))
TeamOptions(df, y, lg) ==
    {ALL_TEAMS} \cup Range(teams(df, y, IF lg = ALL_LEAGUES THEN None ELSE lg))

\* app.py:39-43 and :57: the selection and view = filter_table(src_df, y, lg, tm)
Query ==
    /\ src_df # NoFrame
    /\ \E y \in YearOptions(src_df), lg \in LeagueOptions(src_df) :
          \E tm \in TeamOptions(src_df, y, lg) :
             \E perm \in filter_table(src_df, y, lg, tm) :
                /\ view' = Frame(src_df, perm)
                /\ meta' = [year |-> y, league |-> lg, team |-> tm]
                /\ ret' = [op |-> "query"]
                /\ UNCHANGED <<srcFile, dbFile, src_df, snap, clock, pc, loc>>

\* app.py:47-51: the save button: view_for_save = filter_table(...), then
\* snapshot_to_db(view_for_save, meta).  Each call reads the clock one second
\* after the previous one; at most MaxSnapshots calls are made.
SnapshotToDb ==
    /\ meta # None
    /\ snap.count < MaxSnapshots
    /\ \E perm \in filter_table(src_df, meta.year, meta.league, meta.team) :
          LET view_for_save == Frame(src_df, perm)
              now == clock + 1
          IN    /\ dbFile' = snapshot_to_db(dbFile, view_for_save, meta, now)
                /\ snap' = [taken |-> TRUE, count |-> snap.count + 1,
                            view |-> view_for_save, meta |-> meta, stamp |-> Stamp(now),
                            before |-> dbFile, layoutsBefore |-> snap.layouts,
                            layouts |-> snap.layouts \cup {view_for_save.cols}]
                /\ clock' = now
                /\ ret' = [op |-> "snapshot_to_db"]
                /\ UNCHANGED <<srcFile, src_df, view, meta, pc, loc>>

\* app.py:155: db = load_db()
LoadDb ==
    /\ ret' = [op |-> "load_db", out |-> load_db(dbFile)]
    /\ UNCHANGED <<srcFile, dbFile, src_df, view, meta, snap, clock, pc, loc>>

Next == LoadSource \/ ImportUpload \/ Query \/ SnapshotToDb \/ LoadDb

Spec == Init /\ [][Next]_vars

---------------------------------------------------------------------------
(* Claims about the history log and the upload (under Spec) *)

IsPrefix(a, b) == Len(a) <= Len(b) /\ SubSeq(b, 1, Len(a)) = a

LastRows(rows, n) == SubSeq(rows, Len(rows) - n + 1, Len(rows))

\* the rows snapshotToDb(view, meta) at stamp is to add: view's rows, each with
\* _saved_at = stamp and _meta = the string form of meta
HistoryEntries(v, m, stamp) ==
    [i \in DOMAIN v.rows |->
        [c \in {"_saved_at", "_meta"} \cup Range(v.cols) |->
            IF c = "_saved_at" THEN stamp
            ELSE IF c = "_meta" THEN Repr(m)
            ELSE v.rows[i][c]]]

\* the data lines (all but the header line) of a log
LogRows(db) == IF db.exists /\ db.lines # <<>> THEN Len(db.lines) - 1 ELSE 0

\* loadDb() right after the latest snapshotToDb returned the snapshot's rows last
RoundTrips ==
    /\ ~ret.out.raised
    /\ Len(ret.out.val.rows) >= Len(snap.view.rows)
    /\ LastRows(ret.out.val.rows, Len(snap.view.rows))
          = HistoryEntries(snap.view, snap.meta, snap.stamp)
    /\ LogRows(dbFile) - LogRows(snap.before) = Len(snap.view.rows)

\* C2 as stated: whatever the log held before (also snapshots of views with
\* other columns), snapshotToDb(view, meta) followed by loadDb() returns a table
\* whose last len(view) rows are view's rows with that call's _saved_at and the
\* string form of meta, and the log grew by len(view) rows.
C2_AsStated ==
    (ret.op = "load_db" /\ snap.taken) => RoundTrips

\* C2 amended: the same, provided the log was absent before the call or held
\* only snapshots of views with the same column list as view.
C2_RoundTrip ==
    (ret.op = "load_db" /\ snap.taken /\ snap.layoutsBefore \subseteq {snap.view.cols})
        => RoundTrips

\* C2 witness: a snapshot of two rows appended to a log that already held rows,
\* read back.
C2_Witness ==
    /\ ret.op = "load_db" /\ snap.taken
    /\ snap.layoutsBefore = {snap.view.cols}
    /\ LogRows(snap.before) >= 1
    /\ Len(snap.view.rows) = 2
    /\ RoundTrips

IsHeaderLine(line) == line # <<>> /\ line[1] = S("_saved_at")

\* C3: the history log is append-only.  In every step: only snapshotToDb
\* changes the log; a log that exists keeps existing and keeps every line at
\* its place; the call that creates the file writes exactly one header line,
\* first, followed by the view's rows; a later call adds the view's rows after
\* the existing lines and no header line.
C3_AppendOnlyStep ==
    /\ (dbFile' # dbFile) => ret'.op = "snapshot_to_db" /\ snap' # snap
    /\ dbFile.exists => (dbFile'.exists /\ IsPrefix(dbFile.lines, dbFile'.lines))
    /\ (~dbFile.exists /\ dbFile'.exists) =>
          /\ dbFile'.lines # <<>>
          /\ IsHeaderLine(dbFile'.lines[1])
          /\ \A i \in 2..Len(dbFile'.lines) : ~IsHeaderLine(dbFile'.lines[i])
          /\ Len(dbFile'.lines) = 1 + Len(snap'.view.rows)
    /\ (dbFile.exists /\ snap' # snap) =>
          /\ Len(dbFile'.lines) = Len(dbFile.lines) + Len(snap'.view.rows)
          /\ \A i \in (Len(dbFile.lines) + 1)..Len(dbFile'.lines) :
                ~IsHeaderLine(dbFile'.lines[i])
    /\ (snap' # snap) => dbFile'.exists

C3_AppendOnly == [][C3_AppendOnlyStep]_vars

\* C3 witness: a log that holds the rows of two snapshots under one header.
C3_Witness ==
    /\ snap.taken /\ snap.count = 2
    /\ LogRows(snap.before) >= 1
    /\ LogRows(dbFile) > LogRows(snap.before)
    /\ Cardinality({i \in DOMAIN dbFile.lines : IsHeaderLine(dbFile.lines[i])}) = 1

\* the required columns a parsed buffer lacks
Absent(buf) == {c \in Range(NEEDED_COLS) : c \notin Range(buf.cols)}

\* C5: an upload whose table lacks a required column fails with a schema error
\* that names exactly the absent required columns and returns no table; the
\* step changes neither the source file nor the history log, so loadSource()
\* returns afterwards what it returned before, and the session's table stays
\* the one loadSource returned.
C5_FailedUploadStep ==
    (ret'.op = "import_uploaded_csv" /\ Absent(ret'.arg) # {}) =>
        /\ ret'.out.raised
        /\ ret'.out.val = None
        /\ Range(ret'.out.exc.missing) = Absent(ret'.arg)
        /\ srcFile' = srcFile
        /\ dbFile' = dbFile
        /\ load_source(srcFile') = load_source(srcFile)
        /\ src_df' = load_source(srcFile').val

C5_FailedUpload == [][C5_FailedUploadStep]_vars

\* C5 witness: a failed upload in a session that has loaded the source and
\* has a history log.
C5_Witness ==
    /\ ret.op = "import_uploaded_csv"
    /\ ret.out.raised
    /\ Len(ret.out.exc.missing) = 2
    /\ dbFile.exists
    /\ src_df = load_source(srcFile).val
    /\ src_df.rows # <<>>

---------------------------------------------------------------------------
(* SpecLoad: the Source Loader and the Upload Importer on every source file  *)
(* of at most MaxFileRows rows over the cells below, in four column layouts. *)

MaxFileRows == 2

\* Year cells: a number, an empty field, a text
LoadYearCells == {F(2023), NaN, S("Heisei")}
\* WinRate cells: below, at and inside the bounds, above, an empty field, a text
LoadWinRateCells == {F(0 - 200), F(0), F(580), F(1000), F(1300), NaN, S("high")}

LoadLayouts == {NEEDED_COLS, LayoutOther, LayoutNoDraws, LayoutNoYearNoWinRate}

FilesOf(layout) ==
    {CsvFile(layout, rows) :
        rows \in UNION {[1..n -> {RawRow(layout, y, "Central", "Giants", w) :
                                     y \in LoadYearCells, w \in LoadWinRateCells}] :
                        n \in 0..MaxFileRows}}

LoadFiles == {NoSource} \cup UNION {FilesOf(layout) : layout \in LoadLayouts}

InitLoad ==
    /\ srcFile \in LoadFiles
    /\ dbFile = NoFile
    /\ src_df = NoFrame
    /\ view = NoFrame
    /\ meta = None
    /\ snap = NoSnap
    /\ ret = Idle
    /\ clock = 0
    /\ pc = <<>>
    /\ loc = <<>>

NextLoad == LoadSource \/ ImportUpload

SpecLoad == InitLoad /\ [][NextLoad]_vars

---------------------------------------------------------------------------
(* Claims about loading and validation (under SpecLoad) *)

Loaded == ret.op = "load_source" /\ ~ret.out.raised

\* C4 as stated: every row of the table loadSource returns has WinRate in
\* [0,1]: a stored value below 0 becomes 0, one above 1 becomes 1, one inside
\* stays; no row is dropped.
C4_AsStated ==
    Loaded =>
        /\ Len(ret.out.val.rows) = Len(srcFile.rows)
        /\ \A i \in DOMAIN ret.out.val.rows :
              LET stored == srcFile.rows[i]["WinRate"]
                  got == ret.out.val.rows[i]["WinRate"]
              IN /\ IsNum(got) /\ 0 <= got.v /\ got.v <= 1000
                 /\ (IsNum(stored) /\ stored.v < 0) => got = F(0)
                 /\ (IsNum(stored) /\ stored.v > 1000) => got = F(1000)
                 /\ (IsNum(stored) /\ 0 <= stored.v /\ stored.v <= 1000) => got = stored

\* What the code does keep: every stored WinRate that is a number is clamped
\* into [0,1], an empty WinRate field stays NaN, and no row is dropped.
LoadClampsNumbers ==
    Loaded =>
        /\ Len(ret.out.val.rows) = Len(srcFile.rows)
        /\ \A i \in DOMAIN ret.out.val.rows :
              LET stored == srcFile.rows[i]["WinRate"]
                  got == ret.out.val.rows[i]["WinRate"]
              IN IF IsNaN(stored) THEN IsNaN(got)
                 ELSE /\ IsNum(got) /\ 0 <= got.v /\ got.v <= 1000
                      /\ stored.v < 0 => got = F(0)
                      /\ stored.v > 1000 => got = F(1000)
                      /\ (0 <= stored.v /\ stored.v <= 1000) => got = stored

\* the parsed table a call validated: the source file or the upload buffer
Validated == IF ret.op = "load_source" THEN srcFile ELSE ret.arg

ValidatorRan ==
    \/ ret.op = "load_source" /\ srcFile.exists
    \/ ret.op = "import_uploaded_csv"

IsSchemaError(out) ==
    out.raised /\ "missing" \in DOMAIN out.exc

NamesExpected(out) ==
    "expected" \in DOMAIN out.exc /\ out.exc.expected = NEEDED_COLS

C7_WitnessLoader ==
    /\ ret.op = "load_source"
    /\ IsSchemaError(ret.out)
    /\ Len(ret.out.exc.missing) = 2
    /\ NamesExpected(ret.out)

---------------------------------------------------------------------------
(* SpecConc: two sessions each run snapshot_to_db once, statement by         *)
(* statement.  Nothing in logic.py:66-76 locks the file: the existence test  *)
(* (line 73) and the write (lines 74/76) are separate steps, and to_csv      *)
(* itself opens the file (mode "a" appends, mode "w" truncates) before it    *)
(* writes its buffered text when it closes the file.                         *)

Sessions == {1, 2}

ConcViews ==
    { [cols |-> NEEDED_COLS, rows |-> <<>>],
      [cols |-> NEEDED_COLS,
       rows |-> << RawRow(NEEDED_COLS, F(2023), "Central", "Giants", F(580)) >>],
      [cols |-> NEEDED_COLS,
       rows |-> << RawRow(NEEDED_COLS, F(2023), "Pacific", "Hawks", F(600)),
                   RawRow(NEEDED_COLS, F(2023), "Central", "Tigers", F(507)) >>] }

ConcMeta == [year |-> F(2023), league |-> ALL_LEAGUES, team |-> ALL_TEAMS]

\* A log an earlier snapshot left.
EarlierLog ==
    snapshot_to_db(NoFile,
                   [cols |-> NEEDED_COLS,
                    rows |-> << RawRow(NEEDED_COLS, F(2022), "Central", "Giants", F(550)) >>],
                   [year |-> F(2022), league |-> ALL_LEAGUES, team |-> ALL_TEAMS], 0)

InitConc ==
    /\ srcFile = NoSource
    /\ dbFile \in {NoFile, EarlierLog}
    /\ src_df = NoFrame
    /\ view = NoFrame
    /\ meta = None
    /\ snap = [overlapped |-> FALSE, initial |-> dbFile]
    /\ ret = Idle
    /\ clock = 0
    /\ pc = [s \in Sessions |-> "idle"]
    /\ loc \in [Sessions -> {[df_view |-> v, meta |-> ConcMeta, stamp |-> 0, exists |-> FALSE] :
                                v \in ConcViews}]

InCall(s) == pc[s] \in {"exists", "open", "write"}

\* a step of session s falls into a call of the other session
Overlaps(s) == \E o \in Sessions \ {s} : InCall(o)

Step(s, from, to) ==
    /\ pc[s] = from
    /\ pc' = [pc EXCEPT ![s] = to]
    /\ snap' = [snap EXCEPT !.overlapped = @ \/ Overlaps(s)]

\* logic.py:68-72: the timestamp is read and out is built; the two sessions may
\* read the same second
SnapBegin(s) ==
    /\ Step(s, "idle", "exists")
    /\ \E now \in {clock, clock + 1} :
          /\ clock' = now
          /\ loc' = [loc EXCEPT ![s].stamp = now]
    /\ UNCHANGED <<srcFile, dbFile, src_df, view, meta, ret>>

\* Mutant of SnapExists: the test always answers that the log is absent.
SnapExists_AlwaysAbsent(s) ==
    /\ Step(s, "exists", "open")
    /\ loc' = [loc EXCEPT ![s].exists = FALSE]
    /\ UNCHANGED <<srcFile, dbFile, src_df, view, meta, ret, clock>>

\* logic.py:73: os.path.exists(DB_PATH)
SnapExists(s) ==
    /\ Step(s, "exists", "open")
    /\ loc' = [loc EXCEPT ![s].exists = dbFile.exists]
    /\ UNCHANGED <<srcFile, dbFile, src_df, view, meta, ret, clock>>

\* logic.py:74/76: to_csv opens the file: mode "a" keeps the content (and
\* creates a missing file), the default mode "w" creates or truncates it
SnapOpen(s) ==
    /\ Step(s, "open", "write")
    /\ dbFile' = IF loc[s].exists
                 THEN [exists |-> TRUE, lines |-> dbFile.lines]
                 ELSE [exists |-> TRUE, lines |-> <<>>]
    /\ UNCHANGED <<srcFile, src_df, view, meta, ret, clock, loc>>

\* logic.py:74/76: to_csv writes its text.  In mode "a" it goes to the end of
\* the file, without header.  In mode "w" header and rows go to the handle's
\* own position, the start of the file, over whatever another handle has put
\* there since (taken line by line).
SnapWrite(s) ==
    /\ Step(s, "write", "done")
    /\ LET out == WithStampAndMeta(loc[s].df_view, Stamp(loc[s].stamp), loc[s].meta)
           text == <<HeaderLine(out)>> \o DataLines(out)
       IN dbFile' = IF loc[s].exists
                    THEN [exists |-> TRUE, lines |-> dbFile.lines \o DataLines(out)]
                    ELSE [exists |-> TRUE,
                          lines |-> text \o SubSeq(dbFile.lines, Len(text) + 1,
                                                   Len(dbFile.lines))]
    /\ UNCHANGED <<srcFile, src_df, view, meta, ret, clock, loc>>

NextConc ==
    \E s \in Sessions : SnapBegin(s) \/ SnapExists(s) \/ SnapOpen(s) \/ SnapWrite(s)

SpecConc == InitConc /\ [][NextConc]_vars

AllDone == \A s \in Sessions : pc[s] = "done"

\* the log after session a's call and then session b's, each run on its own
Serial(a, b) ==
    snapshot_to_db(
        snapshot_to_db(snap.initial, loc[a].df_view, loc[a].meta, loc[a].stamp),
        loc[b].df_view, loc[b].meta, loc[b].stamp)

SerialLogs == {Serial(1, 2), Serial(2, 1)}

\* C10: snapshotToDb takes no lock and tests for the file before it writes.
\* When the two calls do not overlap (a single writer at a time), the log ends
\* as one of the two serial orders leaves it; overlapping calls can end with a
\* log that neither serial order produces (C10_Witness).
C10_SingleWriterSerial ==
    (AllDone /\ ~snap.overlapped) => dbFile \in SerialLogs

\* C10 witness: both sessions saw the log absent and both wrote a fresh file:
\* the log holds one header and only one session's rows, the other session's
\* snapshot is lost, and no serial order gives this log.
C10_Witness ==
    /\ AllDone
    /\ snap.overlapped
    /\ \A s \in Sessions : ~loc[s].exists /\ loc[s].df_view.rows # <<>>
    /\ dbFile \notin SerialLogs
    /\ \E s \in Sessions :
          dbFile = snapshot_to_db(NoFile, loc[s].df_view, loc[s].meta, loc[s].stamp)

====
